---- MODULE Spec2Model ----
(***************************************************************************)
(* Model of scripts/fix.py, the AEP markdown link checker/fixer.           *)
(*                                                                         *)
(* A Python str is modelled as a sequence of one-character strings, so     *)
(* that str.replace, str.split, str.strip and the regular expressions of   *)
(* the script are computed character by character, as the script does.     *)
(***************************************************************************)
EXTENDS Integers, Sequences, FiniteSets, TLC

VARIABLES
    check_only,      \* args.check
    path_exists,     \* aep_path.exists()
    entries,         \* aep_path.iterdir(): set of [name, is_dir]
    fs,              \* the *.md.j2 files: fs[f] = [readable, data]
    pc,              \* position in main: "start", "validate", "apply", "exited"
    existing_aeps,   \* main's existing_aeps
    i,               \* index of the next file of main's validation loop
    all_errors,      \* main's all_errors
    all_fixes,       \* main's all_fixes: sequence of <<file, fixes>>
    j,               \* index of the next element of all_fixes to apply
    printed,         \* what the process has printed: report, banners, traceback
    exit_code,       \* process exit status, -1 while running
    io,              \* the opens of files so far: <<"r" or "w", file, phase>>
    run,             \* number of the current invocation of main
    fs_start,        \* fs_start[r]: the files as invocation r found them
    prev_printed     \* what the invocation before this one printed

vars == <<check_only, path_exists, entries, fs, pc, existing_aeps, i,
          all_errors, all_fixes, j, printed, exit_code, io, run, fs_start,
          prev_printed>>

(***************************************************************************)
(* Character classes.                                                      *)
(***************************************************************************)
\* \d of the re module, restricted to ASCII
Digit == {"0", "1", "2", "3", "4", "5", "6", "7", "8", "9"}

\* what str.strip() removes and \s matches, of what a file can hold here
Whitespace == {" ", "\t", "\f"}

\* the line boundaries of str.splitlines a file here can hold; a "\r" never
\* reaches the script, open() in text mode has translated it to "\n"
LineBoundary == {"\n", "\f"}

UpperCase == <<"A", "B", "C", "D", "E", "F", "G", "H", "I", "J", "K", "L", "M",
               "N", "O", "P", "Q", "R", "S", "T", "U", "V", "W", "X", "Y", "Z">>
LowerCase == <<"a", "b", "c", "d", "e", "f", "g", "h", "i", "j", "k", "l", "m",
               "n", "o", "p", "q", "r", "s", "t", "u", "v", "w", "x", "y", "z">>

\* urllib.parse.scheme_chars
SchemeChars == {UpperCase[k] : k \in 1..26} \cup {LowerCase[k] : k \in 1..26}
                 \cup Digit \cup {"+", "-", "."}

Lower(c) ==
    IF \E k \in 1..26 : UpperCase[k] = c
    THEN LowerCase[CHOOSE k \in 1..26 : UpperCase[k] = c]
    ELSE c

\* str.lower()
LowerStr(s) == [k \in 1..Len(s) |-> Lower(s[k])]

(***************************************************************************)
(* str methods.                                                            *)
(***************************************************************************)
StartsWith(s, p) == Len(s) >= Len(p) /\ SubSeq(s, 1, Len(p)) = p

EndsWith(s, p) == Len(s) >= Len(p) /\ SubSeq(s, Len(s) - Len(p) + 1, Len(s)) = p

\* least index k >= from with s[k] \in S, 0 when there is none
RECURSIVE FindFirst(_, _, _)
FindFirst(s, from, S) ==
    IF from > Len(s) THEN 0
    ELSE IF s[from] \in S THEN from
    ELSE FindFirst(s, from + 1, S)

\* s.replace(old, new), old not empty: every non-overlapping occurrence,
\* leftmost first
RECURSIVE Replace(_, _, _)
Replace(s, old, new) ==
    IF Len(s) < Len(old) THEN s
    ELSE IF StartsWith(s, old)
         THEN new \o Replace(SubSeq(s, Len(old) + 1, Len(s)), old, new)
         ELSE <<s[1]>> \o Replace(Tail(s), old, new)

\* s.split(c)
RECURSIVE Split(_, _)
Split(s, c) ==
    LET k == FindFirst(s, 1, {c})
    IN  IF k = 0 THEN <<s>>
        ELSE <<SubSeq(s, 1, k - 1)>> \o Split(SubSeq(s, k + 1, Len(s)), c)

\* the pieces of s, each ending with its boundary character of B
RECURSIVE KeepEnds(_, _)
KeepEnds(s, B) ==
    IF s = <<>> THEN <<>>
    ELSE LET k == FindFirst(s, 1, B)
         IN  IF k = 0 THEN <<s>>
             ELSE <<SubSeq(s, 1, k)>> \o KeepEnds(SubSeq(s, k + 1, Len(s)), B)

\* content.splitlines(keepends=True)
SplitLines(s) == KeepEnds(s, LineBoundary)

\* f.readlines()
ReadLines(s) == KeepEnds(s, {"\n"})

RECURSIVE LStrip(_)
LStrip(s) == IF s # <<>> /\ s[1] \in Whitespace THEN LStrip(Tail(s)) ELSE s

RECURSIVE RStrip(_)
RStrip(s) ==
    IF s # <<>> /\ s[Len(s)] \in Whitespace
    THEN RStrip(SubSeq(s, 1, Len(s) - 1)) ELSE s

\* s.strip()
Strip(s) == RStrip(LStrip(s))

\* ''.join(parts)
RECURSIVE Join(_)
Join(parts) == IF parts = <<>> THEN <<>> ELSE Head(parts) \o Join(Tail(parts))

(***************************************************************************)
(* The link extractors.                                                    *)
(***************************************************************************)
\* link_pattern matched at position p of line: <<text, url, end>> or <<>>.
\* [^\]]+ runs to the first "]" and [^)]+ to the first ")"; neither class
\* holds its own terminator, so a shorter run never matches either
MatchLinkAt(line, p) ==
    LET q == FindFirst(line, p + 1, {"]"})
        r == FindFirst(line, q + 2, {")"})
    IN  IF /\ line[p] = "["
           /\ q > p + 1
           /\ q + 1 <= Len(line)
           /\ line[q + 1] = "("
           /\ r > q + 2
        THEN <<SubSeq(line, p + 1, q - 1), SubSeq(line, q + 2, r - 1), r>>
        ELSE <<>>

\* link_pattern.findall(line) from position p on
RECURSIVE FindAllLinks(_, _)
FindAllLinks(line, p) ==
    IF p > Len(line) THEN <<>>
    ELSE LET m == MatchLinkAt(line, p)
         IN  IF m = <<>> THEN FindAllLinks(line, p + 1)
             ELSE <<<<m[1], m[2]>>>> \o FindAllLinks(line, m[3] + 1)

\* the index of the last character of the run of digits starting at p
RECURSIVE DigitsEnd(_, _)
DigitsEnd(s, p) ==
    IF p + 1 <= Len(s) /\ s[p + 1] \in Digit THEN DigitsEnd(s, p + 1) ELSE p

AepPrefix == <<"a", "e", "p", "-">>

\* self_ref_pattern matched at position p of line: <<group 1, end>> or <<>>.
\* With re.IGNORECASE the backreference \1 compares case-insensitively
MatchSelfRefAt(line, p) ==
    LET e == DigitsEnd(line, p + 5)
        n == e - p
    IN  IF /\ line[p] = "["
           /\ p + 5 <= Len(line)
           /\ LowerStr(SubSeq(line, p + 1, p + 4)) = AepPrefix
           /\ line[p + 5] \in Digit
           /\ e + 2 + n + 1 <= Len(line)
           /\ line[e + 1] = "]"
           /\ line[e + 2] = "["
           /\ LowerStr(SubSeq(line, e + 3, e + 2 + n)) = LowerStr(SubSeq(line, p + 1, e))
           /\ line[e + 3 + n] = "]"
        THEN <<SubSeq(line, p + 1, e), e + 3 + n>>
        ELSE <<>>

\* self_ref_pattern.findall(line) from position p on
RECURSIVE FindAllSelfRefs(_, _)
FindAllSelfRefs(line, p) ==
    IF p > Len(line) THEN <<>>
    ELSE LET m == MatchSelfRefAt(line, p)
         IN  IF m = <<>> THEN FindAllSelfRefs(line, p + 1)
             ELSE <<m[1]>> \o FindAllSelfRefs(line, m[2] + 1)

\* ref_pattern.match(line.strip()): <<group 1, group 2 stripped>> or <<>>
MatchRefLine(line) ==
    LET s   == Strip(line)
        q   == FindFirst(s, 2, {"]"})
        url == LStrip(SubSeq(s, q + 2, Len(s)))
    IN  IF /\ s # <<>>
           /\ s[1] = "["
           /\ q > 2
           /\ q + 1 <= Len(s)
           /\ s[q + 1] = ":"
           /\ url # <<>>
        THEN <<SubSeq(s, 2, q - 1), Strip(url)>>
        ELSE <<>>

\* the located matches of every line: <<line_num, ...>>, line_num from 1
Located(ms, n) == [k \in 1..Len(ms) |-> <<n>> \o ms[k]]

InlineMatches(line) == FindAllLinks(line, 1)

SelfRefMatches(line) ==
    LET ms == FindAllSelfRefs(line, 1) IN [k \in 1..Len(ms) |-> <<ms[k]>>]

RefMatches(line) ==
    LET m == MatchRefLine(line) IN IF m = <<>> THEN <<>> ELSE <<m>>

find_markdown_links(content) ==
    LET lines == Split(content, "\n")
    IN  Join([n \in 1..Len(lines) |-> Located(InlineMatches(lines[n]), n)])

find_self_reference_links(content) ==
    LET lines == Split(content, "\n")
    IN  Join([n \in 1..Len(lines) |-> Located(SelfRefMatches(lines[n]), n)])

find_reference_links(content) ==
    LET lines == Split(content, "\n")
    IN  Join([n \in 1..Len(lines) |-> Located(RefMatches(lines[n]), n)])

(***************************************************************************)
(* The rule predicates.                                                    *)
(***************************************************************************)
MdSuffix == <<".", "m", "d">>

GithubPrefix == <<"h", "t", "t", "p", "s", ":", "/", "/",
                  "g", "i", "t", "h", "u", "b", ".", "c", "o", "m", "/">>

\* the index of the "/" of ^\.?/(\d+)$ in url
SlashAt(url) == IF url # <<>> /\ url[1] = "." THEN 2 ELSE 1

is_aep_reference(url) ==
    LET p == SlashAt(url)
    IN  /\ p + 1 <= Len(url)
        /\ url[p] = "/"
        /\ \A k \in (p + 1)..Len(url) : url[k] \in Digit

\* match.group(1) of re.match(r'^\.?/(\d+)$', url)
AepNum(url) == SubSeq(url, SlashAt(url) + 1, Len(url))

is_aep_identifier(link_text) ==
    /\ Len(link_text) >= 5
    /\ LowerStr(SubSeq(link_text, 1, 4)) = AepPrefix
    /\ \A k \in 5..Len(link_text) : link_text[k] \in Digit

\* urllib.parse.urlsplit as urlparse uses it, for the scheme and the netloc:
\* leading C0 controls and spaces are stripped, tab, CR and LF removed; the
\* scheme is what precedes the first ":" when that is a letter followed by
\* scheme characters; the netloc follows "//" up to the first of "/?#".
\* A netloc holding one of "[" and "]" without the other raises ValueError
\* (a netloc holding both is checked as an IP literal; no URL here has both)
urlparse(url) ==
    LET u      == SelectSeq(LStrip(url), LAMBDA c : c \notin {"\t", "\r", "\n"})
        c      == FindFirst(u, 1, {":"})
        has    == /\ c > 1
                  /\ \E k \in 1..26 : u[1] \in {UpperCase[k], LowerCase[k]}
                  /\ \A k \in 1..(c - 1) : u[k] \in SchemeChars
        rest   == IF has THEN SubSeq(u, c + 1, Len(u)) ELSE u
        net    == StartsWith(rest, <<"/", "/">>)
        d      == FindFirst(rest, 3, {"/", "?", "#"})
        netloc == IF net THEN SubSeq(rest, 3, IF d = 0 THEN Len(rest) ELSE d - 1)
                  ELSE <<>>
    IN  [scheme |-> IF has THEN LowerStr(SubSeq(u, 1, c - 1)) ELSE <<>>,
         netloc |-> netloc,
         raises |-> (\E k \in 1..Len(netloc) : netloc[k] = "[")
                      # (\E k \in 1..Len(netloc) : netloc[k] = "]")]

HttpSchemes == {<<"h", "t", "t", "p">>, <<"h", "t", "t", "p", "s">>}

is_http_url(url) == urlparse(url).scheme \in HttpSchemes

is_valid_http_url(url) ==
    urlparse(url).scheme \in HttpSchemes /\ urlparse(url).netloc # <<>>

(***************************************************************************)
(* validate_file.  A diagnostic is [file, line, rule, text, url], rule     *)
(* naming the message; a fix is <<line_idx, original_line, fixed_line>>,   *)
(* line_idx counted from 0 as in the script.                               *)
(***************************************************************************)
Diag(f, n, rule, text, url) ==
    [file |-> f, line |-> n, rule |-> rule, text |-> text, url |-> url]

\* line 146
PointsToMd(url) == EndsWith(url, MdSuffix) /\ ~StartsWith(url, GithubPrefix)

\* lines 152-153
MdFixedLine(original_line, url) ==
    Replace(original_line, url, SubSeq(url, 1, Len(url) - 3))

\* lines 158-163
MissingAep(url, existing) == is_aep_reference(url) /\ AepNum(url) \notin existing

\* lines 169-170
InvalidHttp(url) == is_http_url(url) /\ ~is_valid_http_url(url)

\* line 178
RefDefAep(link, reference_links) ==
    /\ is_aep_identifier(link[2])
    /\ \E k \in 1..Len(reference_links) : reference_links[k][1] = link[1]

\* lines 184-187
RefDefFixedLine(original_line, link_text, url) ==
    LET construct == <<"[">> \o link_text \o <<"]", ":", " ">> \o url
        with_nl   == Replace(original_line, construct \o <<"\n">>, <<>>)
    IN  IF with_nl = original_line
        THEN Replace(original_line, construct, <<>>)
        ELSE with_nl

\* line 201
SelfRefFixedLine(original_line, link_text) ==
    Replace(original_line,
            <<"[">> \o link_text \o <<"]", "[">> \o link_text \o <<"]">>,
            link_text)

\* the diagnostics of one iteration of the loop of lines 141-189
LinkErrors(f, link, reference_links, existing) ==
    LET n == link[1]  text == link[2]  url == link[3]
    IN  (IF PointsToMd(url) THEN <<Diag(f, n, "md", text, url)>> ELSE <<>>)
        \o (IF MissingAep(url, existing)
            THEN <<Diag(f, n, "missing", text, url)>> ELSE <<>>)
        \o (IF InvalidHttp(url) THEN <<Diag(f, n, "http", text, url)>> ELSE <<>>)
        \o (IF RefDefAep(link, reference_links)
            THEN <<Diag(f, n, "refdef", text, url)>> ELSE <<>>)

\* LinkFixes with a bug: it also proposes a fix for an invalid HTTP URL,
\* dropping the URL from the line
LinkFixesGuessingHttp(link, reference_links, lines_with_newlines) ==
    LET text == link[2]  url == link[3]
        line_idx == link[1] - 1
        original_line == lines_with_newlines[line_idx + 1]
    IN  (IF PointsToMd(url)
         THEN <<<<line_idx, original_line, MdFixedLine(original_line, url)>>>>
         ELSE <<>>)
        \o (IF InvalidHttp(url)
            THEN <<<<line_idx, original_line, Replace(original_line, url, <<>>)>>>>
            ELSE <<>>)
        \o (IF RefDefAep(link, reference_links)
            THEN <<<<line_idx, original_line,
                     RefDefFixedLine(original_line, text, url)>>>>
            ELSE <<>>)

\* the fixes of one iteration of the loop of lines 141-189
LinkFixes(link, reference_links, lines_with_newlines) ==
    LET text == link[2]  url == link[3]
        line_idx == link[1] - 1
        original_line == lines_with_newlines[line_idx + 1]
    IN  (IF PointsToMd(url)
         THEN <<<<line_idx, original_line, MdFixedLine(original_line, url)>>>>
         ELSE <<>>)
        \o (IF RefDefAep(link, reference_links)
            THEN <<<<line_idx, original_line,
                     RefDefFixedLine(original_line, text, url)>>>>
            ELSE <<>>)

\* urlparse raises ValueError on the URL of some link of the file, at
\* is_http_url, line 169
UrlRaises(file) ==
    LET all_links == find_markdown_links(file.data) \o find_reference_links(file.data)
    IN  file.readable /\ \E k \in 1..Len(all_links) : urlparse(all_links[k][3]).raises

\* what validate_file returns on a file [readable, data] when nothing raises
validate_file(f, file, existing, check) ==
    LET content == file.data
        lines_with_newlines == SplitLines(content)
        regular_links == find_markdown_links(content)
        reference_links == find_reference_links(content)
        self_reference_links == find_self_reference_links(content)
        all_links == regular_links \o reference_links
        link_errors == Join([k \in 1..Len(all_links) |->
                         LinkErrors(f, all_links[k], reference_links, existing)])
        link_fixes == Join([k \in 1..Len(all_links) |->
                         LinkFixes(all_links[k], reference_links, lines_with_newlines)])
        self_errors == [k \in 1..Len(self_reference_links) |->
                         Diag(f, self_reference_links[k][1], "selfref",
                              self_reference_links[k][2], <<>>)]
        self_fixes == [k \in 1..Len(self_reference_links) |->
                         LET line_idx == self_reference_links[k][1] - 1
                             original_line == lines_with_newlines[line_idx + 1]
                         IN  <<line_idx, original_line,
                               SelfRefFixedLine(original_line,
                                                self_reference_links[k][2])>>]
    IN  IF ~file.readable
        THEN [errors |-> <<Diag(f, 0, "read", <<>>, <<>>)>>, fixes |-> <<>>]
        ELSE [errors |-> link_errors \o self_errors,
              fixes  |-> IF check THEN <<>> ELSE link_fixes \o self_fixes]

(***************************************************************************)
(* apply_fixes.                                                            *)
(***************************************************************************)
\* lines 220-222
WithNewline(original_line, fixed_line) ==
    IF EndsWith(original_line, <<"\n">>) /\ ~EndsWith(fixed_line, <<"\n">>)
    THEN fixed_line \o <<"\n">>
    ELSE fixed_line

\* the loop of lines 218-223 over reversed(fixes): fixes[k] down to fixes[1]
RECURSIVE ApplyReversed(_, _, _)
ApplyReversed(lines, fixes, k) ==
    IF k = 0 THEN lines
    ELSE ApplyReversed(
           [lines EXCEPT ![fixes[k][1] + 1] = WithNewline(fixes[k][2], fixes[k][3])],
           fixes, k - 1)

\* the lines apply_fixes hands to f.writelines
FixedLines(data, fixes) == ApplyReversed(ReadLines(data), fixes, Len(fixes))

(***************************************************************************)
(* The inputs: a directory listing and files made of a few lines.          *)
(***************************************************************************)
\* x\n   (no link)
PlainLine ==
    <<"x", "\n">>

\* [a](b.md)\n   (rule 1)
MdLine ==
    <<"[", "a", "]", "(", "b", ".", "m", "d", ")", "\n">>

\* [a](/2)\n   (rule 2, there being no directory 2)
MissingLine ==
    <<"[", "a", "]", "(", "/", "2", ")", "\n">>

\* [a](http:)\n   (rule 3, an http scheme and no host)
HttpLine ==
    <<"[", "a", "]", "(", "h", "t", "t", "p", ":", ")", "\n">>

\* [a](//[)\n   (urlparse raises ValueError on the netloc)
BracketLine ==
    <<"[", "a", "]", "(", "/", "/", "[", ")", "\n">>

\* [b.md](b.md)\n   (rule 1, the URL being the link text too)
TextMdLine ==
    <<"[", "b", ".", "m", "d", "]", "(", "b", ".", "m", "d", ")", "\n">>

\* [a](b.md)[c](d.md)\n   (rule 1 twice)
TwoMdLine ==
    <<"[", "a", "]", "(", "b", ".", "m", "d", ")", "[", "c", "]", "(", "d",
    ".", "m", "d", ")", "\n">>

\* [a](/2)[c](d.md)\n   (rule 2 and rule 1)
MissingMdLine ==
    <<"[", "a", "]", "(", "/", "2", ")", "[", "c", "]", "(", "d", ".", "m",
    "d", ")", "\n">>

\* [aep-1]: /1\n   (rule 4)
RefDefLine ==
    <<"[", "a", "e", "p", "-", "1", "]", ":", " ", "/", "1", "\n">>

\* [aep-1]: /1.md\n   (rule 4 and rule 1)
RefDefMdLine ==
    <<"[", "a", "e", "p", "-", "1", "]", ":", " ", "/", "1", ".", "m", "d",
    "\n">>

\* [aep-1]:  /1\n   (rule 4, two spaces after the colon)
RefDefWideLine ==
    <<"[", "a", "e", "p", "-", "1", "]", ":", " ", " ", "/", "1", "\n">>

\* [aep-1]: /1   (rule 4, no line break)
RefDefLastLine ==
    <<"[", "a", "e", "p", "-", "1", "]", ":", " ", "/", "1">>

\* x[aep-1][aep-1]\n   (rule 5)
SelfRefLine ==
    <<"x", "[", "a", "e", "p", "-", "1", "]", "[", "a", "e", "p", "-", "1",
    "]", "\n">>

\* [aep-1][aep-1][aep-2][aep-2]\n   (rule 5 twice)
TwoSelfRefLine ==
    <<"[", "a", "e", "p", "-", "1", "]", "[", "a", "e", "p", "-", "1", "]",
    "[", "a", "e", "p", "-", "2", "]", "[", "a", "e", "p", "-", "2", "]",
    "\n">>

\* [aep-1][AEP-1]\n   (rule 5, matched case-insensitively)
MixedCaseLine ==
    <<"[", "a", "e", "p", "-", "1", "]", "[", "A", "E", "P", "-", "1", "]",
    "\n">>

\* [a](https://github.com/b.md)\n   (exempt from rule 1)
GithubLine ==
    <<"[", "a", "]", "(", "h", "t", "t", "p", "s", ":", "/", "/", "g", "i",
    "t", "h", "u", "b", ".", "c", "o", "m", "/", "b", ".", "m", "d", ")",
    "\n">>

\* the most files of a tree
NumFiles == 2

\* the most lines of a tree, all its files together
MaxLines == 2

\* the lines of the files of a tree
MainLines == {PlainLine, MdLine, MissingLine, HttpLine, BracketLine}

\* the lines of the file of a rule-engine run
FixLines ==
    MainLines \cup
    {TextMdLine, TwoMdLine, MissingMdLine, RefDefLine, RefDefMdLine,
     RefDefWideLine, RefDefLastLine, SelfRefLine, TwoSelfRefLine,
     MixedCaseLine, GithubLine}

\* a file that open() cannot read
Unreadable == [readable |-> FALSE, data |-> <<>>]

\* the number of lines of the files of a shape: shape[k] is the number of
\* lines of file k, -1 for a file that cannot be read
RECURSIVE ShapeLines(_)
ShapeLines(shape) ==
    IF shape = <<>> THEN 0
    ELSE (IF Head(shape) < 0 THEN 0 ELSE Head(shape)) + ShapeLines(Tail(shape))

\* the shapes of the trees of at most m files and at most n lines in all
Shapes(m, n) ==
    {shape \in UNION {[1..k -> -1..n] : k \in 0..m} : ShapeLines(shape) <= n}

\* the tree of a shape, its lines being ls in order
TreeOf(shape, ls) ==
    [k \in 1..Len(shape) |->
        IF shape[k] < 0 THEN Unreadable
        ELSE LET before == ShapeLines(SubSeq(shape, 1, k - 1))
             IN  [readable |-> TRUE,
                  data |-> Join(SubSeq(ls, before + 1, before + shape[k]))]]

\* the trees of at most m files of lines of L, at most n lines in all
Trees(L, m, n) ==
    UNION {{TreeOf(shape, ls) : ls \in [1..ShapeLines(shape) -> L]} :
             shape \in Shapes(m, n)}

\* the children of aep_path: the directories 1 and x and the plain file 3
Listing ==
    {[name |-> <<"1">>, is_dir |-> TRUE],
     [name |-> <<"x">>, is_dir |-> TRUE],
     [name |-> <<"3">>, is_dir |-> FALSE]}

\* str.isdigit()
IsDigit(name) == name # <<>> /\ \A k \in 1..Len(name) : name[k] \in Digit

(***************************************************************************)
(* main, one action per step: the start, one iteration of either loop,     *)
(* the report, and the ways the process ends.                              *)
(***************************************************************************)
InitWith(trees) ==
    /\ check_only \in BOOLEAN
    /\ path_exists \in BOOLEAN
    /\ entries = IF path_exists THEN Listing ELSE {}
    /\ fs \in IF path_exists THEN trees ELSE {<<>>}
    /\ pc = "start"
    /\ existing_aeps = {}
    /\ i = 0
    /\ all_errors = <<>>
    /\ all_fixes = <<>>
    /\ j = 0
    /\ printed = <<>>
    /\ exit_code = -1
    /\ io = <<>>
    /\ run = 1
    /\ fs_start = <<fs>>
    /\ prev_printed = <<>>

\* a tree of up to NumFiles files
Init == InitWith(Trees(MainLines, NumFiles, MaxLines))

\* a tree of one file, drawn from every kind of line
InitFix == InitWith({tree \in Trees(FixLines, 1, MaxLines) : Len(tree) = 1})

\* find_aep_directories, lines 33-35: the directory is missing, sys.exit(1)
PathMissing ==
    /\ pc = "start"
    /\ ~path_exists
    /\ pc' = "exited"
    /\ exit_code' = 1
    /\ printed' = Append(printed, <<"not found">>)
    /\ UNCHANGED <<check_only, path_exists, entries, fs, existing_aeps, i,
                   all_errors, all_fixes, j, io, run, fs_start, prev_printed>>

\* main, lines 242-261: the catalog of find_aep_directories, the file list
BeginMain ==
    /\ pc = "start"
    /\ path_exists
    /\ existing_aeps' = {e.name : e \in {x \in entries : x.is_dir /\ IsDigit(x.name)}}
    /\ all_errors' = <<>>
    /\ all_fixes' = <<>>
    /\ i' = 1
    /\ pc' = "validate"
    /\ UNCHANGED <<check_only, path_exists, entries, fs, j, printed, exit_code,
                   io, run, fs_start, prev_printed>>

\* ValidateNext with a bug: the fixes of a file are applied as soon as the
\* file is validated, before the next file is read
ValidateNextThenFix ==
    /\ pc = "validate"
    /\ i <= Len(fs)
    /\ ~UrlRaises(fs[i])
    /\ LET r == validate_file(i, fs[i], existing_aeps, check_only)
       IN  /\ all_errors' = all_errors \o r.errors
           /\ IF r.fixes # <<>>
              THEN /\ fs' = [fs EXCEPT ![i].data = Join(FixedLines(fs[i].data, r.fixes))]
                   /\ io' = io \o <<<<"r", i, "validate">>, <<"r", i, "apply">>,
                                    <<"w", i, "apply">>>>
              ELSE /\ fs' = fs
                   /\ io' = Append(io, <<"r", i, "validate">>)
    /\ i' = i + 1
    /\ UNCHANGED <<check_only, path_exists, entries, pc, existing_aeps,
                   all_fixes, j, printed, exit_code, run, fs_start, prev_printed>>

\* main, lines 263-267: one iteration of the validation loop
ValidateNext ==
    /\ pc = "validate"
    /\ i <= Len(fs)
    /\ ~UrlRaises(fs[i])
    /\ LET r == validate_file(i, fs[i], existing_aeps, check_only)
       IN  /\ all_errors' = all_errors \o r.errors
           /\ all_fixes' = IF r.fixes # <<>>
                           THEN Append(all_fixes, <<i, r.fixes>>)
                           ELSE all_fixes
    /\ io' = Append(io, <<"r", i, "validate">>)
    /\ i' = i + 1
    /\ UNCHANGED <<check_only, path_exists, entries, fs, pc, existing_aeps, j,
                   printed, exit_code, run, fs_start, prev_printed>>

\* main, line 264: the ValueError of urlparse leaves validate_file and main,
\* nothing catches it; the interpreter prints a traceback and exits with 1
ValidateRaises ==
    /\ pc = "validate"
    /\ i <= Len(fs)
    /\ UrlRaises(fs[i])
    /\ io' = Append(io, <<"r", i, "validate">>)
    /\ printed' = Append(printed, <<"Traceback">>)
    /\ pc' = "exited"
    /\ exit_code' = 1
    /\ UNCHANGED <<check_only, path_exists, entries, fs, existing_aeps, i,
                   all_errors, all_fixes, j, run, fs_start, prev_printed>>

\* main, lines 286-288: no error, sys.exit(0)
ReportValid ==
    /\ pc = "validate"
    /\ i > Len(fs)
    /\ all_errors = <<>>
    /\ printed' = Append(printed, <<"valid">>)
    /\ pc' = "exited"
    /\ exit_code' = 0
    /\ UNCHANGED <<check_only, path_exists, entries, fs, existing_aeps, i,
                   all_errors, all_fixes, j, io, run, fs_start, prev_printed>>

\* main, lines 270-273: the report of the errors
Report == printed \o [k \in 1..Len(all_errors) |-> <<"error", all_errors[k]>>]

\* main, lines 270-275 and 284-285: errors and nothing to apply, sys.exit(1)
ReportAndExit ==
    /\ pc = "validate"
    /\ i > Len(fs)
    /\ all_errors # <<>>
    /\ ~(~check_only /\ all_fixes # <<>>)
    /\ printed' = Report
    /\ pc' = "exited"
    /\ exit_code' = 1
    /\ UNCHANGED <<check_only, path_exists, entries, fs, existing_aeps, i,
                   all_errors, all_fixes, j, io, run, fs_start, prev_printed>>

\* main, lines 270-277: errors and fixes to apply, on to the loop of fixes
ReportAndApply ==
    /\ pc = "validate"
    /\ i > Len(fs)
    /\ all_errors # <<>>
    /\ ~check_only /\ all_fixes # <<>>
    /\ printed' = Report
    /\ pc' = "apply"
    /\ j' = 1
    /\ UNCHANGED <<check_only, path_exists, entries, fs, existing_aeps, i,
                   all_errors, all_fixes, exit_code, io, run, fs_start, prev_printed>>

\* main, lines 277-279, apply_fixes returning True: without a fix it opens
\* nothing (lines 210-211), else it reads the lines and writes them all
ApplyNext ==
    /\ pc = "apply"
    /\ j <= Len(all_fixes)
    /\ LET f == all_fixes[j][1]
           fixes == all_fixes[j][2]
       IN  /\ fs[f].readable
           /\ IF fixes = <<>>
              THEN UNCHANGED <<fs, io>>
              ELSE /\ fs' = [fs EXCEPT ![f].data = Join(FixedLines(fs[f].data, fixes))]
                   /\ io' = io \o <<<<"r", f, "apply">>, <<"w", f, "apply">>>>
           /\ printed' = Append(printed, <<"Fixed", f>>)
    /\ j' = j + 1
    /\ UNCHANGED <<check_only, path_exists, entries, pc, existing_aeps, i,
                   all_errors, all_fixes, exit_code, run, fs_start, prev_printed>>

\* ApplyFails with a bug: main goes on to the next file after the failure
ApplyFailsAndGoesOn ==
    /\ pc = "apply"
    /\ j <= Len(all_fixes)
    /\ all_fixes[j][2] # <<>>
    /\ io' = Append(io, <<"r", all_fixes[j][1], "apply">>)
    /\ printed' = Append(printed, <<"Failed", all_fixes[j][1]>>)
    /\ j' = j + 1
    /\ UNCHANGED <<check_only, path_exists, entries, fs, pc, existing_aeps, i,
                   all_errors, all_fixes, exit_code, run, fs_start, prev_printed>>

\* main, lines 278-282, apply_fixes returning False (lines 229-231),
\* sys.exit(1): the open for reading fails, or the open for writing fails,
\* or the write fails after k of the lines
ApplyFails ==
    /\ pc = "apply"
    /\ j <= Len(all_fixes)
    /\ LET f == all_fixes[j][1]
           fixes == all_fixes[j][2]
           lines == FixedLines(fs[f].data, fixes)
       IN  /\ fixes # <<>>
           /\ \/ /\ io' = Append(io, <<"r", f, "apply">>)
                 /\ fs' = fs
              \/ /\ fs[f].readable
                 /\ io' = io \o <<<<"r", f, "apply">>, <<"w", f, "apply">>>>
                 /\ \/ fs' = fs
                    \/ \E k \in 0..Len(lines) :
                         fs' = [fs EXCEPT ![f].data = Join(SubSeq(lines, 1, k))]
           /\ printed' = Append(printed, <<"Failed", f>>)
    /\ pc' = "exited"
    /\ exit_code' = 1
    /\ UNCHANGED <<check_only, path_exists, entries, existing_aeps, i,
                   all_errors, all_fixes, j, run, fs_start, prev_printed>>

\* main, line 283 and the end of main: every fix applied, exit status 0
AllApplied ==
    /\ pc = "apply"
    /\ j > Len(all_fixes)
    /\ printed' = Append(printed, <<"applied">>)
    /\ pc' = "exited"
    /\ exit_code' = 0
    /\ UNCHANGED <<check_only, path_exists, entries, fs, existing_aeps, i,
                   all_errors, all_fixes, j, io, run, fs_start, prev_printed>>

\* the script is run a second time, with the same flags, on what the first
\* run left
Rerun ==
    /\ pc = "exited"
    /\ run = 1
    /\ run' = 2
    /\ fs_start' = Append(fs_start, fs)
    /\ pc' = "start"
    /\ existing_aeps' = {}
    /\ i' = 0
    /\ all_errors' = <<>>
    /\ all_fixes' = <<>>
    /\ j' = 0
    /\ prev_printed' = printed
    /\ printed' = <<>>
    /\ exit_code' = -1
    /\ io' = <<>>
    /\ UNCHANGED <<check_only, path_exists, entries, fs>>

Next ==
    \/ PathMissing
    \/ BeginMain
    \/ ValidateNext
    \/ ValidateRaises
    \/ ReportValid
    \/ ReportAndExit
    \/ ReportAndApply
    \/ ApplyNext
    \/ ApplyFails
    \/ AllApplied

NextTwice == Next \/ Rerun

\* one run of main on a tree
Spec == Init /\ [][Next]_vars

\* two runs of main in succession on a one-file tree
SpecTwice == InitFix /\ [][NextTwice]_vars

(***************************************************************************)
(* Vocabulary of the properties.                                           *)
(***************************************************************************)
Exited == pc = "exited"

\* the process printed this line
Printed(line) == \E k \in 1..Len(printed) : printed[k] = line

\* some violation or read error was reported
SomeErrorReported == \E k \in 1..Len(printed) : printed[k][1] = "error"

\* the traceback of an uncaught exception
Crashed == Printed(<<"Traceback">>)

\* apply_fixes failed on some file
SomeApplyFailed == \E f \in 1..Len(fs) : Printed(<<"Failed", f>>)

\* file f was opened with this mode in this phase of main
Opened(mode, f, phase) == \E k \in 1..Len(io) : io[k] = <<mode, f, phase>>

\* file f was opened for writing
Written(f) == Opened("w", f, "apply")

\* the files main holds fixes for
FixFiles == {all_fixes[k][1] : k \in 1..Len(all_fixes)}

\* the diagnostics main holds for file f
ErrorsOf(f) == {all_errors[k] : k \in {m \in 1..Len(all_errors) : all_errors[m].file = f}}

\* the rules with an automatic fix, and those without
FixableRules == {"md", "refdef", "selfref"}
ReportOnlyRules == {"missing", "http"}

\* file f is as this invocation found it
Untouched(f) == fs[f] = fs_start[run][f]

(***************************************************************************)
(* C6: every run of main exits with 0 if no violation was found or every   *)
(* fix was applied, and with a non-zero status if a reported violation     *)
(* remains unaddressed (a report-only violation of rule 2 or 3, a read     *)
(* error, or any violation in check-only mode) or a write failed, also     *)
(* when other violations of the run were fixed.                            *)
(***************************************************************************)
Unaddressed ==
    \E k \in 1..Len(all_errors) :
        check_only \/ all_errors[k].rule \in ReportOnlyRules \cup {"read"}

C6_ExitStatus ==
    (Exited /\ path_exists /\ ~Crashed)
        => (exit_code # 0 <=> (Unaddressed \/ SomeApplyFailed))

(***************************************************************************)
(* C7: in check-only mode validate_file proposes no fix, apply_fixes is    *)
(* never called, no file is opened for writing and every file keeps its    *)
(* content, and the process exits non-zero if and only if at least one     *)
(* violation or read error was reported.                                   *)
(***************************************************************************)
C7_CheckOnly ==
    (check_only /\ path_exists)
        => /\ all_fixes = <<>>
           /\ pc # "apply"
           /\ \A k \in 1..Len(io) : io[k][1] = "r" /\ io[k][3] = "validate"
           /\ \A f \in 1..Len(fs) : Untouched(f)
           /\ Exited => (exit_code # 0 <=> SomeErrorReported)

(***************************************************************************)
(* C8: in fix mode a file for which validation proposes no fix is never    *)
(* rewritten: a validated file whose violations are none or report-only    *)
(* (rule 2, rule 3) has its violations recorded and no fix, and a file     *)
(* without fixes is never opened by apply_fixes and keeps its bytes.       *)
(***************************************************************************)
C8_NoFixNoRewrite ==
    ~check_only =>
        \A f \in 1..Len(fs) :
            /\ (f < i /\ \A e \in ErrorsOf(f) : e.rule \notin FixableRules)
                  => f \notin FixFiles
            /\ f \notin FixFiles
                  => /\ Untouched(f)
                     /\ ~Opened("r", f, "apply")
                     /\ ~Written(f)

\* a fix run that has rewritten one file and left alone a file whose only
\* violation is report-only
C8_Witness ==
    /\ ~check_only
    /\ Exited
    /\ exit_code = 0
    /\ \E f, g \in 1..Len(fs) :
          /\ Written(g)
          /\ ErrorsOf(f) # {}
          /\ \A e \in ErrorsOf(f) : e.rule \in ReportOnlyRules
          /\ f \notin FixFiles
          /\ fs[f].data # <<>>

(***************************************************************************)
(* C9: in fix mode, when apply_fixes fails for a file the failure is       *)
(* reported, the process ends at once with a non-zero status, and no file  *)
(* later in the list of files with fixes is opened or written.             *)
(***************************************************************************)
C9_FailStops ==
    \A f \in 1..Len(fs) :
        Printed(<<"Failed", f>>)
            => /\ Exited
               /\ exit_code # 0
               /\ printed[Len(printed)] = <<"Failed", f>>
               /\ j \in 1..Len(all_fixes)
               /\ all_fixes[j][1] = f
               /\ \A k \in (j + 1)..Len(all_fixes) :
                     /\ ~Opened("r", all_fixes[k][1], "apply")
                     /\ ~Written(all_fixes[k][1])
                     /\ Untouched(all_fixes[k][1])

\* apply_fixes has failed on a file that is not the last one with fixes
C9_Witness ==
    /\ SomeApplyFailed
    /\ j < Len(all_fixes)

(***************************************************************************)
(* C10 as stated: in fix mode files are processed one at a time to         *)
(* completion; no file is read or validated while an earlier file still    *)
(* has collected fixes that have not been written.                         *)
(***************************************************************************)
C10_OneFileAtATime ==
    ~check_only =>
        \A a, b \in 1..Len(fs) :
            (a < b /\ fs[b].readable /\ Opened("r", b, "validate"))
                => ~(a \in FixFiles /\ ~Written(a))

(***************************************************************************)
(* C10 as amended: in fix mode main works in two passes; every file is     *)
(* read and validated, in traversal order, before any file is opened by    *)
(* apply_fixes, and the files with fixes are then rewritten one at a time  *)
(* in traversal order.                                                     *)
(***************************************************************************)
C10_ValidateThenApply ==
    /\ \A k \in 1..Len(io) :
          io[k][3] = "apply"
              => /\ ~check_only
                 /\ i = Len(fs) + 1
                 /\ \A f \in 1..Len(fs) :
                       \E m \in 1..(k - 1) : io[m] = <<"r", f, "validate">>
    /\ \A k, m \in 1..Len(io) :
          (k < m /\ io[k][3] = io[m][3]) => io[k][2] <= io[m][2]

\* two files have been rewritten, after both were validated
C10_Witness ==
    \E a, b \in 1..Len(fs) : a < b /\ Written(a) /\ Written(b)

(***************************************************************************)
(* The rule-engine properties, on the files of two runs in succession.     *)
(***************************************************************************)
\* neither this invocation nor the one before crashed or failed to write
CleanRuns ==
    /\ ~Crashed
    /\ ~SomeApplyFailed
    /\ \A k \in 1..Len(prev_printed) :
          prev_printed[k][1] \notin {"Traceback", "Failed"}

\* a fix-mode run on an existing tree has ended without crash or failure
FixRunDone == ~check_only /\ path_exists /\ Exited /\ CleanRuns

\* the lines of file f as the extractors number them, before and after
LinesBefore(f) == Split(fs_start[run][f].data, "\n")
LinesAfter(f) == Split(fs[f].data, "\n")

\* how many diagnostics of this rule main holds for line n of file f
CountErrors(f, n, rule) ==
    Cardinality({k \in 1..Len(all_errors) :
                    /\ all_errors[k].file = f
                    /\ all_errors[k].line = n
                    /\ all_errors[k].rule = rule})

(***************************************************************************)
(* C1: fix mode is idempotent: a second fix run in succession leaves every *)
(* file as the first run left it and reports no violation of rule 1, 4     *)
(* or 5.                                                                   *)
(***************************************************************************)
C1_Idempotent ==
    (FixRunDone /\ run = 2)
        => /\ \A f \in 1..Len(fs) : Untouched(f)
           /\ \A k \in 1..Len(all_errors) : all_errors[k].rule \notin FixableRules

(***************************************************************************)
(* C2: a line the extractor classifies as a reference definition whose     *)
(* name is an AEP identifier is empty after one fix pass, its index and    *)
(* line break preserved, and a second fix pass reports no rule 4           *)
(* violation for that line.                                                *)
(***************************************************************************)
C2_RefDefRemoved ==
    FixRunDone =>
        \A f \in 1..Len(fs) :
            LET refs == find_reference_links(fs_start[1][f].data)
            IN  \A k \in 1..Len(refs) :
                    is_aep_identifier(refs[k][2])
                        => /\ run = 1
                              => /\ Len(LinesAfter(f)) = Len(LinesBefore(f))
                                 /\ LinesAfter(f)[refs[k][1]] = <<>>
                           /\ run = 2 => CountErrors(f, refs[k][1], "refdef") = 0

(***************************************************************************)
(* C3: when rule 1 and rule 4 both fire on a line (a reference definition  *)
(* named by an AEP identifier whose URL ends in .md and is not a GitHub    *)
(* URL) both violations are reported and, after one fix pass, the line in  *)
(* the file is the result of the rule 4 fix: empty.                        *)
(***************************************************************************)
C3_RefDefWins ==
    (FixRunDone /\ run = 1)
        => \A f \in 1..Len(fs) :
              LET refs == find_reference_links(fs_start[1][f].data)
              IN  \A k \in 1..Len(refs) :
                      (is_aep_identifier(refs[k][2]) /\ PointsToMd(refs[k][3]))
                          => /\ Printed(<<"error", Diag(f, refs[k][1], "md",
                                                        refs[k][2], refs[k][3])>>)
                             /\ Printed(<<"error", Diag(f, refs[k][1], "refdef",
                                                        refs[k][2], refs[k][3])>>)
                             /\ LinesAfter(f)[refs[k][1]] = <<>>

(***************************************************************************)
(* C4: for every line holding self-reference pairs the extractor matches,  *)
(* fix mode reports one rule 5 violation per match and rewrites the line   *)
(* so that each matched substring is replaced by its naked identifier,     *)
(* every other character unchanged.                                        *)
(***************************************************************************)
\* line from position p on, every matched pair replaced by its identifier
RECURSIVE Naked(_, _)
Naked(line, p) ==
    IF p > Len(line) THEN <<>>
    ELSE LET m == MatchSelfRefAt(line, p)
         IN  IF m = <<>> THEN <<line[p]>> \o Naked(line, p + 1)
             ELSE m[1] \o Naked(line, m[2] + 1)

C4_SelfRefNaked ==
    (FixRunDone /\ run = 1)
        => \A f \in 1..Len(fs) :
              \A n \in 1..Len(LinesBefore(f)) :
                  LET line == LinesBefore(f)[n]
                      pairs == FindAllSelfRefs(line, 1)
                  IN  pairs # <<>>
                          => /\ CountErrors(f, n, "selfref") = Len(pairs)
                             /\ Len(LinesAfter(f)) = Len(LinesBefore(f))
                             /\ LinesAfter(f)[n] = Naked(line, 1)

(***************************************************************************)
(* C5: for every located link (inline or reference definition) whose URL   *)
(* ends in .md and does not start with https://github.com/, validate_file  *)
(* emits exactly one "points to .md file" violation for that link and, in  *)
(* fix mode, the rewritten line is the original line with the final three  *)
(* characters of that URL removed, otherwise byte-identical.               *)
(***************************************************************************)
\* line from position p on, the URL of its k-th inline link from there
\* without its last three characters
RECURSIVE StripInline(_, _, _)
StripInline(line, p, k) ==
    IF p > Len(line) THEN <<>>
    ELSE LET m == MatchLinkAt(line, p)
         IN  IF m = <<>> THEN <<line[p]>> \o StripInline(line, p + 1, k)
             ELSE IF k = 1
                  THEN SubSeq(line, p, m[3] - 4) \o SubSeq(line, m[3], Len(line))
                  ELSE SubSeq(line, p, m[3]) \o StripInline(line, m[3] + 1, k - 1)

\* a reference definition without the last three characters of its value
StripRef(line) ==
    LET body == RStrip(line)
    IN  SubSeq(body, 1, Len(body) - 3) \o SubSeq(line, Len(body) + 1, Len(line))

\* validate_file proposed, for line n of file f, the rewriting of the line
\* to fixed (the line break of the line apart)
Proposed(f, n, fixed) ==
    \E k \in 1..Len(all_fixes) :
        /\ all_fixes[k][1] = f
        /\ \E m \in 1..Len(all_fixes[k][2]) :
              LET fix == all_fixes[k][2][m]
              IN  /\ fix[1] = n - 1
                  /\ fix[3] \in {fixed, fixed \o <<"\n">>}

C5_MdStripped ==
    (~check_only /\ path_exists /\ ~Crashed)
        => \A f \in 1..Len(fs) :
              f < i =>
                \A n \in 1..Len(LinesBefore(f)) :
                    LET line == LinesBefore(f)[n]
                        inl  == InlineMatches(line)
                        ref  == RefMatches(line)
                        mds  == {k \in 1..Len(inl) : PointsToMd(inl[k][2])}
                        mdr  == ref # <<>> /\ PointsToMd(ref[1][2])
                        only == Len(inl) + Len(ref) + Len(SelfRefMatches(line)) = 1
                        done == Exited /\ CleanRuns /\ only
                    IN  /\ CountErrors(f, n, "md")
                              = Cardinality(mds) + (IF mdr THEN 1 ELSE 0)
                        /\ \A k \in mds :
                              /\ Proposed(f, n, StripInline(line, 1, k))
                              /\ done => LinesAfter(f)[n] = StripInline(line, 1, k)
                        /\ mdr => /\ Proposed(f, n, StripRef(line))
                                  /\ done => LinesAfter(f)[n] = StripRef(line)

====
